---- MODULE Spec2Model ----
(***************************************************************************)
(* Exercise-Tracker REST API.                                              *)
(*                                                                         *)
(* Spec    : the in-memory variant (src/server.js; src/unnamed/part_001   *)
(*           has the same handlers without the try/catch wrappers).  Every *)
(*           handler is synchronous, so one request is one atomic action.  *)
(* SpecLog : the same handlers, driven with well-formed submissions and    *)
(*           the full range of log queries (from, to, limit).              *)
(* SpecDb  : POST /api/users of the two document-database variants         *)
(*           (src/unnamed/part_002 and src/unnamed/part_000), where a      *)
(*           handler yields at every awaited store operation.              *)
(*                                                                         *)
(* Strings that the code parses as numbers (ids, limit, duration) are      *)
(* sequences of one-character strings.  Instants are integers counting     *)
(* half days since 1970-01-01T00:00Z; the process runs with TZ=UTC.        *)
(***************************************************************************)
EXTENDS Integers, Sequences, FiniteSets, TLC

VARIABLES users, exercises, userIdCounter, exerciseIdCounter,
          request, response, issued,
          variant, uniqueIndex, isConnected, dbUsers, dbExercises, nextOid, reqs

memVars == <<users, exercises, userIdCounter, exerciseIdCounter, request, response, issued>>
dbVars == <<variant, uniqueIndex, isConnected, dbUsers, dbExercises, nextOid, reqs>>
vars == <<users, exercises, userIdCounter, exerciseIdCounter, request, response, issued,
          variant, uniqueIndex, isConnected, dbUsers, dbExercises, nextOid, reqs>>

(* ---------------------------- bounds ----------------------------------- *)
MaxExercises == 2
NReq == 2

(* ---------------------------- JavaScript values ------------------------ *)
NaN == -999
Undefined == "<undefined>"

Usernames == {Undefined, "", "alice", "bob"}
Descriptions == {"", "run"}
ExerciseDates == {Undefined, "garbage"}
QueryDates == {Undefined, "1970-01-02", "1970-01-03", "garbage"}
IdParams == {<<"1">>, <<"2">>, <<"0", "1">>, <<"9", "9", "9">>}
Clock == {3}
Limits == {<<>>, <<"0">>, <<"1">>, <<"-", "1">>}
LogIdParams == {<<"1">>, <<"2">>}
LogExerciseDates == {Undefined, "1970-01-02"}
UndefVal == [t |-> "undef", h |-> 0, s |-> <<>>]
NumVal(h) == [t |-> "num", h |-> h, s |-> <<>>]
StrVal(s) == [t |-> "str", h |-> 0, s |-> s]
Durations == {UndefVal, NumVal(0), NumVal(3), StrVal(<<"0">>)}

Digits == <<"0", "1", "2", "3", "4", "5", "6", "7", "8", "9">>
IsDigit(c) == \E i \in 1..10 : Digits[i] = c
DigitVal(c) == (CHOOSE i \in 1..10 : Digits[i] = c) - 1

RECURSIVE IntToString(_)
IntToString(n) ==
  IF n < 0 THEN <<"-">> \o IntToString(-n)
  ELSE IF n < 10 THEN <<Digits[n + 1]>>
  ELSE IntToString(n \div 10) \o <<Digits[(n % 10) + 1]>>

(* String(x) of a number given in halves: 3 is 1.5, -1 is -0.5 *)
NumberToString(h) ==
  LET a == IF h < 0 THEN -h ELSE h
      sign == IF h < 0 THEN <<"-">> ELSE <<>>
  IN sign \o IntToString(a \div 2) \o (IF a % 2 = 1 THEN <<".", "5">> ELSE <<>>)

Falsy(v) ==
  \/ v.t = "undef"
  \/ v.t = "num" /\ v.h = 0
  \/ v.t = "str" /\ v.s = <<>>

FalsyString(s) == s = Undefined \/ s = ""
GivenDate(d) == ~FalsyString(d)

RECURSIVE SkipWhite(_)
SkipWhite(s) == IF s # <<>> /\ Head(s) = " " THEN SkipWhite(Tail(s)) ELSE s

RECURSIVE ParseDigits(_, _)
ParseDigits(s, acc) ==
  IF s = <<>> \/ ~IsDigit(Head(s)) THEN acc
  ELSE ParseDigits(Tail(s), acc * 10 + DigitVal(Head(s)))

ParseIntString(s) ==
  LET t == SkipWhite(s)
      neg == t # <<>> /\ Head(t) = "-"
      u == IF t # <<>> /\ Head(t) \in {"+", "-"} THEN Tail(t) ELSE t
  IN IF u = <<>> \/ ~IsDigit(Head(u)) THEN NaN
     ELSE IF neg THEN -ParseDigits(u, 0) ELSE ParseDigits(u, 0)

parseInt(v) ==
  CASE v.t = "str" -> ParseIntString(v.s)
    [] v.t = "num" -> ParseIntString(NumberToString(v.h))
    [] OTHER -> NaN

(* new Date(string).getTime() *)
ParseDate(str) ==
  CASE str = "1970-01-01" -> 0
    [] str = "1970-01-02" -> 2
    [] str = "1970-01-03" -> 4
    [] OTHER -> NaN

DayNames == <<"Thu Jan 01 1970", "Fri Jan 02 1970", "Sat Jan 03 1970">>
toDateString(t) == IF t = NaN THEN "Invalid Date" ELSE DayNames[(t \div 2) + 1]

(* relational comparison of two time values: false as soon as one is NaN *)
DateGt(a, b) == a # NaN /\ b # NaN /\ a > b
DateGe(a, b) == a # NaN /\ b # NaN /\ a >= b
DateLe(a, b) == a # NaN /\ b # NaN /\ a <= b

(* Array.prototype.slice(0, end) *)
Slice0(arr, end) ==
  LET len == Len(arr)
      rel == IF end = NaN THEN 0 ELSE end
      k == IF rel < 0 THEN (IF len + rel < 0 THEN 0 ELSE len + rel)
           ELSE (IF rel > len THEN len ELSE rel)
  IN SubSeq(arr, 1, k)

(* Array.prototype.find: the first element satisfying the test, or none *)
NoUser == [username |-> Undefined, _id |-> <<>>]
FindByUsernameNever(us, username) == NoUser
FindByUsername(us, username) ==
  IF \E i \in 1..Len(us) : us[i].username = username
  THEN us[CHOOSE i \in 1..Len(us) : us[i].username = username
                                   /\ \A j \in 1..(i - 1) : us[j].username # username]
  ELSE NoUser
FindByIdLoose(us, id) ==
  IF \E i \in 1..Len(us) : ParseIntString(us[i]._id) = ParseIntString(id)
  THEN us[CHOOSE i \in 1..Len(us) : ParseIntString(us[i]._id) = ParseIntString(id)]
  ELSE NoUser
FindById(us, id) ==
  IF \E i \in 1..Len(us) : us[i]._id = id
  THEN us[CHOOSE i \in 1..Len(us) : us[i]._id = id /\ \A j \in 1..(i - 1) : us[j]._id # id]
  ELSE NoUser

ErrorResponse(status, msg) == [status |-> status, body |-> [error |-> msg]]
NoResponse == [status |-> 0, body |-> [error |-> ""]]
NoRequest == [op |-> "none"]

(* ---------------------------- in-memory variant ------------------------ *)
UserJson(u) == [username |-> u.username, _id |-> u._id]
UserList(us) == [i \in 1..Len(us) |-> UserJson(us[i])]

Init ==
  /\ users = <<>>
  /\ exercises = <<>>
  /\ userIdCounter = 1
  /\ exerciseIdCounter = 1
  /\ request = NoRequest
  /\ response = NoResponse
  /\ issued = {}
  /\ variant = "memory"
  /\ uniqueIndex = FALSE
  /\ isConnected = FALSE
  /\ dbUsers = <<>>
  /\ dbExercises = <<>>
  /\ nextOid = 1
  /\ reqs = <<>>

(* PostUsers with the counter increment of line 50 left out *)
PostUsersNoIncrement(username) ==
  LET existingUser == FindByUsername(users, username)
      newUser == [username |-> username, _id |-> IntToString(userIdCounter)]
  IN
  /\ request' = [op |-> "postUsers", username |-> username]
  /\ IF FalsyString(username)
     THEN /\ response' = ErrorResponse(400, "Username is required")
          /\ UNCHANGED <<users, issued>>
     ELSE IF existingUser # NoUser
     THEN /\ response' = [status |-> 200, body |-> UserJson(existingUser)]
          /\ issued' = issued \cup {<<existingUser._id, existingUser.username>>}
          /\ UNCHANGED users
     ELSE /\ users' = Append(users, newUser)
          /\ response' = [status |-> 200, body |-> UserJson(newUser)]
          /\ issued' = issued \cup {<<newUser._id, newUser.username>>}
  /\ UNCHANGED <<userIdCounter, exercises, exerciseIdCounter>>
  /\ UNCHANGED dbVars

PostUsers(username) ==
  LET existingUser == FindByUsername(users, username)
      newUser == [username |-> username, _id |-> IntToString(userIdCounter)]
  IN
  /\ request' = [op |-> "postUsers", username |-> username]
  /\ IF FalsyString(username)
     THEN /\ response' = ErrorResponse(400, "Username is required")
          /\ UNCHANGED <<users, userIdCounter, issued>>
     ELSE IF existingUser # NoUser
     THEN /\ response' = [status |-> 200, body |-> UserJson(existingUser)]
          /\ issued' = issued \cup {<<existingUser._id, existingUser.username>>}
          /\ UNCHANGED <<users, userIdCounter>>
     ELSE /\ users' = Append(users, newUser)
          /\ userIdCounter' = userIdCounter + 1
          /\ response' = [status |-> 200, body |-> UserJson(newUser)]
          /\ issued' = issued \cup {<<newUser._id, newUser.username>>}
  /\ UNCHANGED <<exercises, exerciseIdCounter>>
  /\ UNCHANGED dbVars

(* GetUsers listing the newest user first *)
GetUsersNewestFirst ==
  /\ request' = [op |-> "getUsers"]
  /\ response' = [status |-> 200,
                  body |-> [i \in 1..Len(users) |-> UserJson(users[Len(users) + 1 - i])]]
  /\ UNCHANGED <<users, exercises, userIdCounter, exerciseIdCounter, issued>>
  /\ UNCHANGED dbVars

GetUsers ==
  /\ request' = [op |-> "getUsers"]
  /\ response' = [status |-> 200, body |-> UserList(users)]
  /\ UNCHANGED <<users, exercises, userIdCounter, exerciseIdCounter, issued>>
  /\ UNCHANGED dbVars

(* PostExercises taking the exercise id before the date is validated *)
PostExercisesEagerId(userId, description, duration, date, now) ==
  LET user == FindById(users, userId)
      exerciseDate == IF ~FalsyString(date) THEN ParseDate(date) ELSE now
      exercise == [_id |-> IntToString(exerciseIdCounter),
                   userId |-> user._id,
                   description |-> description,
                   duration |-> parseInt(duration),
                   date |-> exerciseDate]
  IN
  /\ request' = [op |-> "postExercises", userId |-> userId, description |-> description,
                 duration |-> duration, date |-> date]
  /\ IF FalsyString(description) \/ Falsy(duration)
     THEN /\ response' = ErrorResponse(400, "Description and duration are required")
          /\ UNCHANGED <<exercises, exerciseIdCounter>>
     ELSE IF user = NoUser
     THEN /\ response' = ErrorResponse(404, "User not found")
          /\ UNCHANGED <<exercises, exerciseIdCounter>>
     ELSE IF exerciseDate = NaN
     THEN /\ Len(exercises) < MaxExercises
          /\ response' = ErrorResponse(400, "Invalid date format")
          /\ exerciseIdCounter' = exerciseIdCounter + 1
          /\ UNCHANGED exercises
     ELSE /\ Len(exercises) < MaxExercises
          /\ exercises' = Append(exercises, exercise)
          /\ exerciseIdCounter' = exerciseIdCounter + 1
          /\ response' = [status |-> 200,
                          body |-> [_id |-> user._id, username |-> user.username,
                                    description |-> exercise.description,
                                    duration |-> exercise.duration,
                                    date |-> toDateString(exercise.date)]]
  /\ UNCHANGED <<users, userIdCounter, issued>>
  /\ UNCHANGED dbVars

PostExercises(userId, description, duration, date, now) ==
  LET user == FindById(users, userId)
      exerciseDate == IF ~FalsyString(date) THEN ParseDate(date) ELSE now
      exercise == [_id |-> IntToString(exerciseIdCounter),
                   userId |-> user._id,
                   description |-> description,
                   duration |-> parseInt(duration),
                   date |-> exerciseDate]
  IN
  /\ request' = [op |-> "postExercises", userId |-> userId, description |-> description,
                 duration |-> duration, date |-> date]
  /\ IF FalsyString(description) \/ Falsy(duration)
     THEN /\ response' = ErrorResponse(400, "Description and duration are required")
          /\ UNCHANGED <<exercises, exerciseIdCounter>>
     ELSE IF user = NoUser
     THEN /\ response' = ErrorResponse(404, "User not found")
          /\ UNCHANGED <<exercises, exerciseIdCounter>>
     ELSE IF exerciseDate = NaN
     THEN /\ response' = ErrorResponse(400, "Invalid date format")
          /\ UNCHANGED <<exercises, exerciseIdCounter>>
     ELSE /\ Len(exercises) < MaxExercises
          /\ exercises' = Append(exercises, exercise)
          /\ exerciseIdCounter' = exerciseIdCounter + 1
          /\ response' = [status |-> 200,
                          body |-> [_id |-> user._id, username |-> user.username,
                                    description |-> exercise.description,
                                    duration |-> exercise.duration,
                                    date |-> toDateString(exercise.date)]]
  /\ UNCHANGED <<users, userIdCounter, issued>>
  /\ UNCHANGED dbVars

OwnedBy(exs, userId) == SelectSeq(exs, LAMBDA ex : ex.userId = userId)
FilterFrom(exs, from) ==
  IF FalsyString(from) THEN exs
  ELSE SelectSeq(exs, LAMBDA ex : DateGe(ex.date, ParseDate(from)))
FilterTo(exs, to) ==
  IF FalsyString(to) THEN exs
  ELSE SelectSeq(exs, LAMBDA ex : DateLe(ex.date, ParseDate(to)))
ApplyLimit(exs, limit) ==
  IF limit = <<>> THEN exs ELSE Slice0(exs, ParseIntString(limit))
LogEntry(ex) == [description |-> ex.description, duration |-> ex.duration,
                 date |-> toDateString(ex.date)]
LogEntries(exs) == [i \in 1..Len(exs) |-> LogEntry(exs[i])]
QueryLog(exs, userId, from, to, limit) ==
  LogEntries(ApplyLimit(FilterTo(FilterFrom(OwnedBy(exs, userId), from), to), limit))

GetLogs(userId, from, to, limit) ==
  LET user == FindById(users, userId)
      log == QueryLog(exercises, userId, from, to, limit)
  IN
  /\ request' = [op |-> "getLogs", userId |-> userId, from |-> from, to |-> to,
                 limit |-> limit]
  /\ IF user = NoUser
     THEN response' = ErrorResponse(404, "User not found")
     ELSE response' = [status |-> 200,
                       body |-> [_id |-> user._id, username |-> user.username,
                                 count |-> Len(log), log |-> log]]
  /\ UNCHANGED <<users, exercises, userIdCounter, exerciseIdCounter, issued>>
  /\ UNCHANGED dbVars

(* Spec: every handler, with the full range of request bodies and the      *)
(* unfiltered log query.                                                   *)
Next ==
  \/ \E username \in Usernames : PostUsers(username)
  \/ GetUsers
  \/ \E userId \in IdParams, description \in Descriptions, duration \in Durations,
        date \in ExerciseDates, now \in Clock :
        PostExercises(userId, description, duration, date, now)
  \/ \E userId \in IdParams : GetLogs(userId, Undefined, Undefined, <<>>)

Spec == Init /\ [][Next]_vars

(* SpecLog: the same handlers, with well-formed registrations and          *)
(* submissions and the full range of log queries.                          *)
NextLog ==
  \/ \E username \in {"alice", "bob"} : PostUsers(username)
  \/ \E userId \in LogIdParams, date \in LogExerciseDates, now \in Clock :
        PostExercises(userId, "run", StrVal(<<"1">>), date, now)
  \/ \E userId \in LogIdParams, from \in QueryDates, to \in QueryDates,
        limit \in Limits :
        GetLogs(userId, from, to, limit)

SpecLog == Init /\ [][NextLog]_vars


(* ---------------------------- document-database variants --------------- *)
(* POST /api/users of src/unnamed/part_002 (find, then insert; the schema  *)
(* declares username unique) and of src/unnamed/part_000 (insert, then on  *)
(* a duplicate-key error look the user up; the schema declares no unique   *)
(* index, so whether the collection carries one is a property of the       *)
(* database the process is pointed at).  A handler runs up to its next     *)
(* await in one step; each store operation takes effect atomically.  The   *)
(* store itself never fails.  ObjectIds are fresh integers.                *)
DbUsernames == {Undefined, "", "alice", "bob"}
Requests == 1..NReq
NoDoc == [_id |-> 0, username |-> Undefined]
IdleRequest == [pc |-> "idle", op |-> "postUsers", username |-> Undefined, newUser |-> NoDoc,
                status |-> 0, _id |-> 0]

InitDb ==
  /\ users = <<>>
  /\ exercises = <<>>
  /\ userIdCounter = 1
  /\ exerciseIdCounter = 1
  /\ request = NoRequest
  /\ response = NoResponse
  /\ issued = {}
  /\ variant \in {"part_002", "part_000"}
  /\ uniqueIndex \in BOOLEAN
  /\ variant = "part_002" => uniqueIndex
  /\ isConnected = FALSE
  /\ dbUsers = <<>>
  /\ dbExercises = <<>>
  /\ nextOid = 1
  /\ reqs = [r \in Requests |-> IdleRequest]

(* Model.findOne({ username }) *)
FindOne(docs, username) ==
  IF \E i \in 1..Len(docs) : docs[i].username = username
  THEN docs[CHOOSE i \in 1..Len(docs) : docs[i].username = username
                                       /\ \A j \in 1..(i - 1) : docs[j].username # username]
  ELSE NoDoc

(* the insert of doc.save() is refused with code 11000 *)
DuplicateKey(docs, doc) == uniqueIndex /\ FindOne(docs, doc.username) # NoDoc

Respond(r, status, id) ==
  reqs' = [reqs EXCEPT ![r].pc = "done", ![r].status = status, ![r]._id = id]

(* part_002 lines 43-52: validate, then await User.findOne *)
P2_Handle(r, username) ==
  /\ variant = "part_002"
  /\ reqs[r].pc = "idle"
  /\ IF FalsyString(username)
     THEN reqs' = [reqs EXCEPT ![r].pc = "done", ![r].username = username,
                               ![r].status = 400]
     ELSE reqs' = [reqs EXCEPT ![r].pc = "findOne", ![r].username = username]
  /\ UNCHANGED <<variant, uniqueIndex, isConnected, dbUsers, nextOid>>
  /\ UNCHANGED memVars
  /\ UNCHANGED dbExercises

(* part_002 lines 52-59: findOne resolves; answer with the user found or   *)
(* construct the new document and await its save                           *)
P2_FindOne(r) ==
  LET existingUser == FindOne(dbUsers, reqs[r].username)
  IN
  /\ variant = "part_002"
  /\ reqs[r].pc = "findOne"
  /\ IF existingUser # NoDoc
     THEN /\ Respond(r, 200, existingUser._id)
          /\ UNCHANGED nextOid
     ELSE /\ reqs' = [reqs EXCEPT ![r].pc = "save",
                         ![r].newUser = [_id |-> nextOid, username |-> reqs[r].username]]
          /\ nextOid' = nextOid + 1
  /\ UNCHANGED <<variant, uniqueIndex, isConnected, dbUsers>>
  /\ UNCHANGED memVars
  /\ UNCHANGED dbExercises

(* part_002 lines 59-67: the save resolves or rejects *)
P2_Save(r) ==
  /\ variant = "part_002"
  /\ reqs[r].pc = "save"
  /\ IF DuplicateKey(dbUsers, reqs[r].newUser)
     THEN /\ Respond(r, 500, 0)
          /\ UNCHANGED dbUsers
     ELSE /\ dbUsers' = Append(dbUsers, reqs[r].newUser)
          /\ Respond(r, 200, reqs[r].newUser._id)
  /\ UNCHANGED <<variant, uniqueIndex, isConnected, nextOid>>
  /\ UNCHANGED memVars
  /\ UNCHANGED dbExercises

(* part_000 lines 54-55: the handler starts and awaits connectDB() *)
P0_Handle(r, username) ==
  /\ variant = "part_000"
  /\ reqs[r].pc = "idle"
  /\ reqs' = [reqs EXCEPT ![r].pc = "connectDB", ![r].username = username]
  /\ UNCHANGED <<variant, uniqueIndex, isConnected, dbUsers, nextOid>>
  /\ UNCHANGED memVars
  /\ UNCHANGED dbExercises

(* part_000 lines 33-46 and 57-66: connectDB resolves; validate, construct *)
(* the new document and await its save                                     *)
P0_Connected(r) ==
  /\ variant = "part_000"
  /\ reqs[r].pc = "connectDB"
  /\ isConnected' = TRUE
  /\ IF FalsyString(reqs[r].username)
     THEN /\ Respond(r, 400, 0)
          /\ UNCHANGED nextOid
     ELSE /\ reqs' = [reqs EXCEPT ![r].pc = "save",
                         ![r].newUser = [_id |-> nextOid, username |-> reqs[r].username]]
          /\ nextOid' = nextOid + 1
  /\ UNCHANGED <<variant, uniqueIndex, dbUsers>>
  /\ UNCHANGED memVars
  /\ UNCHANGED dbExercises

(* part_000 lines 66-73: the save resolves, or rejects with code 11000 and *)
(* the catch block awaits User.findOne                                     *)
P0_Save(r) ==
  /\ variant = "part_000"
  /\ reqs[r].pc = "save"
  /\ IF DuplicateKey(dbUsers, reqs[r].newUser)
     THEN /\ reqs' = [reqs EXCEPT ![r].pc = "catchFindOne"]
          /\ UNCHANGED dbUsers
     ELSE /\ dbUsers' = Append(dbUsers, reqs[r].newUser)
          /\ Respond(r, 200, reqs[r].newUser._id)
  /\ UNCHANGED <<variant, uniqueIndex, isConnected, nextOid>>
  /\ UNCHANGED memVars
  /\ UNCHANGED dbExercises

(* part_000 lines 75-79: findOne resolves in the catch block *)
P0_CatchFindOne(r) ==
  LET existingUser == FindOne(dbUsers, reqs[r].username)
  IN
  /\ variant = "part_000"
  /\ reqs[r].pc = "catchFindOne"
  /\ Respond(r, 200, existingUser._id)
  /\ UNCHANGED <<variant, uniqueIndex, isConnected, dbUsers, nextOid>>
  /\ UNCHANGED memVars
  /\ UNCHANGED dbExercises

NextDb ==
  \/ \E r \in Requests, username \in DbUsernames : P2_Handle(r, username)
  \/ \E r \in Requests : P2_FindOne(r)
  \/ \E r \in Requests : P2_Save(r)
  \/ \E r \in Requests, username \in DbUsernames : P0_Handle(r, username)
  \/ \E r \in Requests : P0_Connected(r)
  \/ \E r \in Requests : P0_Save(r)
  \/ \E r \in Requests : P0_CatchFindOne(r)

SpecDb == InitDb /\ [][NextDb]_vars

(* ---------------------------- part_000: exercises and logs -------------- *)
(* POST /api/users/:_id/exercises and GET /api/users/:_id/logs of          *)
(* src/unnamed/part_000, with its POST /api/users above.  :_id is a        *)
(* well-formed ObjectId.  Mongoose casts the conditions of a query to the  *)
(* schema types when the query executes; a Date whose time value is NaN    *)
(* does not cast to the Date path and the query rejects with a CastError.  *)
(* Documents with equal dates have equal log entries here, so their        *)
(* relative order after the sort is not observable.                        *)
DbLogUsernames == {"alice"}
DbIdParams == {1, 2}
DbExerciseDates == {Undefined, "1970-01-02"}
DbFroms == {Undefined, "1970-01-02", "garbage"}
DbTos == {Undefined, "garbage"}
DbLimits == {<<>>, <<"1">>}

InitDbLog ==
  /\ users = <<>>
  /\ exercises = <<>>
  /\ userIdCounter = 1
  /\ exerciseIdCounter = 1
  /\ request = NoRequest
  /\ response = NoResponse
  /\ issued = {}
  /\ variant = "part_000"
  /\ uniqueIndex \in BOOLEAN
  /\ isConnected = FALSE
  /\ dbUsers = <<>>
  /\ dbExercises = <<>>
  /\ nextOid = 1
  /\ reqs = [r \in Requests |-> IdleRequest]

(* User.findById(userId) *)
DbFindById(docs, id) ==
  IF \E i \in 1..Len(docs) : docs[i]._id = id
  THEN docs[CHOOSE i \in 1..Len(docs) : docs[i]._id = id]
  ELSE NoDoc

(* casting a query condition to the Date path fails *)
DateCastFails(d) == GivenDate(d) /\ ParseDate(d) = NaN
QueryCastError(from, to) == DateCastFails(from) \/ DateCastFails(to)

RECURSIVE InsertByDateDesc(_, _)
InsertByDateDesc(doc, docs) ==
  IF docs = <<>> THEN <<doc>>
  ELSE IF doc.date > Head(docs).date THEN <<doc>> \o docs
  ELSE <<Head(docs)>> \o InsertByDateDesc(doc, Tail(docs))

RECURSIVE SortByDateDesc(_)
SortByDateDesc(docs) ==
  IF docs = <<>> THEN <<>> ELSE InsertByDateDesc(Head(docs), SortByDateDesc(Tail(docs)))

(* Query.limit(n) for n >= 1 *)
DbLimit(docs, limit) ==
  IF limit = <<>> \/ ParseIntString(limit) >= Len(docs) THEN docs
  ELSE SubSeq(docs, 1, ParseIntString(limit))

(* Exercise.find({ userId, date: { $gte, $lte } }).limit(n).sort({ date: -1 }) *)
DbFindExercises(docs, userId, from, to, limit) ==
  LET matching == SelectSeq(docs, LAMBDA d :
                     /\ d.userId = userId
                     /\ GivenDate(from) => d.date >= ParseDate(from)
                     /\ GivenDate(to) => d.date <= ParseDate(to))
  IN DbLimit(SortByDateDesc(matching), limit)

Finish(r, status, body) ==
  reqs' = [reqs EXCEPT ![r] = [reqs[r] EXCEPT !.pc = "done", !.status = status,
                                              !.body = body]]
ErrorBody(msg) == [error |-> msg]

(* lines 102-103: the handler starts and awaits connectDB() *)
P0_ExHandle(r, userId, description, duration, date) ==
  /\ reqs[r].pc = "idle"
  /\ reqs' = [reqs EXCEPT ![r] =
                [pc |-> "exConnectDB", op |-> "postExercises", userId |-> userId,
                 description |-> description, duration |-> duration, date |-> date,
                 user |-> NoDoc, doc |-> NoDoc, status |-> 0, body |-> ErrorBody("")]]
  /\ UNCHANGED <<variant, uniqueIndex, isConnected, dbUsers, dbExercises, nextOid>>
  /\ UNCHANGED memVars

(* lines 105-115: connectDB resolves; validate, then await User.findById *)
P0_ExConnected(r) ==
  /\ reqs[r].pc = "exConnectDB"
  /\ isConnected' = TRUE
  /\ IF FalsyString(reqs[r].description) \/ Falsy(reqs[r].duration)
     THEN Finish(r, 400, ErrorBody("Description and duration are required"))
     ELSE reqs' = [reqs EXCEPT ![r].pc = "exFindById"]
  /\ UNCHANGED <<variant, uniqueIndex, dbUsers, dbExercises, nextOid>>
  /\ UNCHANGED memVars

(* lines 115-139: findById resolves; resolve the date, construct the       *)
(* exercise and await its save                                             *)
P0_ExFindById(r, now) ==
  LET user == DbFindById(dbUsers, reqs[r].userId)
      exerciseDate == IF ~FalsyString(reqs[r].date) THEN ParseDate(reqs[r].date) ELSE now
      exercise == [_id |-> nextOid, userId |-> user._id,
                   description |-> reqs[r].description,
                   duration |-> parseInt(reqs[r].duration), date |-> exerciseDate]
  IN
  /\ reqs[r].pc = "exFindById"
  /\ IF user = NoDoc
     THEN /\ Finish(r, 404, ErrorBody("User not found"))
          /\ UNCHANGED nextOid
     ELSE IF exerciseDate = NaN
     THEN /\ Finish(r, 400, ErrorBody("Invalid date format"))
          /\ UNCHANGED nextOid
     ELSE /\ reqs' = [reqs EXCEPT ![r] = [reqs[r] EXCEPT !.pc = "exSave", !.user = user,
                                                        !.doc = exercise]]
          /\ nextOid' = nextOid + 1
  /\ UNCHANGED <<variant, uniqueIndex, isConnected, dbUsers, dbExercises>>
  /\ UNCHANGED memVars

(* lines 139-148: the save resolves *)
P0_ExSave(r) ==
  /\ reqs[r].pc = "exSave"
  /\ dbExercises' = Append(dbExercises, reqs[r].doc)
  /\ Finish(r, 200, [_id |-> reqs[r].user._id, username |-> reqs[r].user.username,
                     description |-> reqs[r].doc.description,
                     duration |-> reqs[r].doc.duration,
                     date |-> toDateString(reqs[r].doc.date)])
  /\ UNCHANGED <<variant, uniqueIndex, isConnected, dbUsers, nextOid>>
  /\ UNCHANGED memVars

(* lines 156-157: the handler starts and awaits connectDB() *)
P0_LogHandle(r, userId, from, to, limit) ==
  /\ reqs[r].pc = "idle"
  /\ reqs' = [reqs EXCEPT ![r] =
                [pc |-> "logConnectDB", op |-> "getLogs", userId |-> userId,
                 from |-> from, to |-> to, limit |-> limit,
                 user |-> NoDoc, status |-> 0, body |-> ErrorBody("")]]
  /\ UNCHANGED <<variant, uniqueIndex, isConnected, dbUsers, dbExercises, nextOid>>
  /\ UNCHANGED memVars

(* lines 159-164: connectDB resolves; await User.findById *)
P0_LogConnected(r) ==
  /\ reqs[r].pc = "logConnectDB"
  /\ isConnected' = TRUE
  /\ reqs' = [reqs EXCEPT ![r].pc = "logFindById"]
  /\ UNCHANGED <<variant, uniqueIndex, dbUsers, dbExercises, nextOid>>
  /\ UNCHANGED memVars

(* lines 164-191: findById resolves; build the query and await its exec *)
P0_LogFindById(r) ==
  LET user == DbFindById(dbUsers, reqs[r].userId)
  IN
  /\ reqs[r].pc = "logFindById"
  /\ IF user = NoDoc
     THEN Finish(r, 404, ErrorBody("User not found"))
     ELSE reqs' = [reqs EXCEPT ![r] = [reqs[r] EXCEPT !.pc = "logExec", !.user = user]]
  /\ UNCHANGED <<variant, uniqueIndex, isConnected, dbUsers, dbExercises, nextOid>>
  /\ UNCHANGED memVars

(* lines 191-209: the query resolves with the documents, or rejects and    *)
(* the catch block answers 500                                             *)
P0_LogExec(r) ==
  LET found == DbFindExercises(dbExercises, reqs[r].user._id, reqs[r].from, reqs[r].to,
                               reqs[r].limit)
      log == LogEntries(found)
  IN
  /\ reqs[r].pc = "logExec"
  /\ IF QueryCastError(reqs[r].from, reqs[r].to)
     THEN Finish(r, 500, ErrorBody("Server error"))
     ELSE Finish(r, 200, [_id |-> reqs[r].user._id, username |-> reqs[r].user.username,
                          count |-> Len(log), log |-> log])
  /\ UNCHANGED <<variant, uniqueIndex, isConnected, dbUsers, dbExercises, nextOid>>
  /\ UNCHANGED memVars

NextDbLog ==
  \/ \E r \in Requests, username \in DbLogUsernames : P0_Handle(r, username)
  \/ \E r \in Requests : P0_Connected(r)
  \/ \E r \in Requests : P0_Save(r)
  \/ \E r \in Requests : P0_CatchFindOne(r)
  \/ \E r \in Requests, userId \in DbIdParams, date \in DbExerciseDates :
        P0_ExHandle(r, userId, "run", StrVal(<<"1">>), date)
  \/ \E r \in Requests : P0_ExConnected(r)
  \/ \E r \in Requests, now \in Clock : P0_ExFindById(r, now)
  \/ \E r \in Requests : P0_ExSave(r)
  \/ \E r \in Requests, userId \in DbIdParams, from \in DbFroms, to \in DbTos,
        limit \in DbLimits : P0_LogHandle(r, userId, from, to, limit)
  \/ \E r \in Requests : P0_LogConnected(r)
  \/ \E r \in Requests : P0_LogFindById(r)
  \/ \E r \in Requests : P0_LogExec(r)

SpecDbLog == InitDbLog /\ [][NextDbLog]_vars

(* ---------------------------- properties ------------------------------- *)
Store == <<users, exercises, userIdCounter, exerciseIdCounter>>
Registered(username) == \E i \in 1..Len(users) : users[i].username = username
IssuedIds == {p[1] : p \in issued}
Min(a, b) == IF a < b THEN a ELSE b
Max(a, b) == IF a > b THEN a ELSE b
IsPrefix(s, t) == Len(s) <= Len(t) /\ SubSeq(t, 1, Len(s)) = s
IdNames == <<<<"1">>, <<"2">>, <<"3">>, <<"4">>, <<"5">>, <<"6">>, <<"7">>, <<"8">>, <<"9">>>>

(* C1: a POST /api/users for a username that is already registered returns *)
(* the _id every earlier registration of that username returned, and       *)
(* leaves the user list, the exercise list and both counters unchanged.    *)
C1_IdempotentRegistration ==
  [][(request'.op = "postUsers" /\ Registered(request'.username))
       => /\ response'.status = 200
          /\ response'.body.username = request'.username
          /\ \A p \in issued : p[2] = request'.username => p[1] = response'.body._id
          /\ \E p \in issued : p[2] = request'.username
          /\ UNCHANGED Store]_vars

C1_Witness ==
  /\ request.op = "postUsers"
  /\ request.username = "alice"
  /\ response.status = 200
  /\ response.body._id = <<"1">>
  /\ Len(users) = 2
  /\ users[2].username = "bob"
  /\ userIdCounter = 3

(* C2: in the document-database variants, under any interleaving of        *)
(* POST /api/users requests, at most one user per username is stored and   *)
(* every request with a non-empty username is answered 200 with the one    *)
(* _id of that username.                                                   *)
Answered(r) == reqs[r].pc = "done" /\ ~FalsyString(reqs[r].username)
C2_OneUserPerUsername ==
  /\ \A i, j \in 1..Len(dbUsers) : i # j => dbUsers[i].username # dbUsers[j].username
  /\ \A r \in Requests : Answered(r) => reqs[r].status = 200
  /\ \A r1, r2 \in Requests :
        (Answered(r1) /\ Answered(r2) /\ reqs[r1].username = reqs[r2].username)
          => reqs[r1]._id = reqs[r2]._id

(* C3: every stored exercise belongs to a stored user; a submission with   *)
(* description and duration present to an id matching no stored user is    *)
(* answered 404 "User not found" and appends nothing.                      *)
C3_ExerciseOwnerExists ==
  /\ [](\A i \in 1..Len(exercises) : \E j \in 1..Len(users) : exercises[i].userId = users[j]._id)
  /\ [][(/\ request'.op = "postExercises"
         /\ ~FalsyString(request'.description)
         /\ ~Falsy(request'.duration)
         /\ \A j \in 1..Len(users) : users[j]._id # request'.userId)
          => /\ response' = ErrorResponse(404, "User not found")
             /\ exercises' = exercises]_vars

C3_Witness ==
  /\ request.op = "postExercises"
  /\ request.userId = <<"9", "9", "9">>
  /\ request.description = "run"
  /\ response = ErrorResponse(404, "User not found")
  /\ Len(users) >= 1
  /\ Len(exercises) >= 1

(* C6: the k-th registered user holds the id string of k, the k-th         *)
(* exercise holds the id string of k, usernames and ids are pairwise       *)
(* distinct, and neither counter moves when the other kind is created.     *)
C6_IndependentIdSequences ==
  /\ [](/\ \A k \in 1..Len(users) : users[k]._id = IdNames[k]
        /\ \A k \in 1..Len(exercises) : exercises[k]._id = IdNames[k]
        /\ \A i, j \in 1..Len(users) :
              i # j => users[i]._id # users[j]._id /\ users[i].username # users[j].username
        /\ \A i, j \in 1..Len(exercises) : i # j => exercises[i]._id # exercises[j]._id
        /\ userIdCounter = Len(users) + 1
        /\ exerciseIdCounter = Len(exercises) + 1)
  /\ [][/\ request'.op = "postUsers" => exerciseIdCounter' = exerciseIdCounter
        /\ request'.op = "postExercises" => userIdCounter' = userIdCounter]_vars

C6_Witness ==
  /\ Len(users) = 2
  /\ Len(exercises) = 2
  /\ users[2]._id = <<"2">>
  /\ exercises[2]._id = <<"2">>
  /\ exercises[1].userId = <<"2">>
  /\ userIdCounter = 3
  /\ exerciseIdCounter = 3

(* C7: a request answered 400 or 404 leaves the user list, the exercise    *)
(* list and both id counters as they were.                                 *)
C7_ErrorsChangeNothing ==
  [][response'.status \in {400, 404} => UNCHANGED Store]_vars

C7_Witness ==
  /\ request.op = "postExercises"
  /\ response = ErrorResponse(400, "Invalid date format")
  /\ Len(exercises) = 1
  /\ exerciseIdCounter = 2

(* C8: the user list only grows at its end, holds each username once, and  *)
(* GET /api/users returns it in that order.                                *)
C8_UsersAppendOnly ==
  /\ [][IsPrefix(users, users')]_vars
  /\ [](\A i, j \in 1..Len(users) : i # j => users[i].username # users[j].username)
  /\ [](request.op = "getUsers" =>
          /\ response.status = 200
          /\ Len(response.body) = Len(users)
          /\ \A i \in 1..Len(users) :
                /\ response.body[i]._id = users[i]._id
                /\ response.body[i].username = users[i].username)

C8_Witness ==
  /\ request.op = "getUsers"
  /\ Len(response.body) = 2
  /\ response.body[1].username = "bob"
  /\ response.body[2].username = "alice"
  /\ Len(exercises) >= 1

(* C10: every id returned by a successful registration is found by the     *)
(* lookup of the exercise and log handlers, with the registered username;  *)
(* an id never issued is not found.                                        *)
C10_IssuedIdsResolve ==
  /\ \A p \in issued :
        /\ FindById(users, p[1]) # NoUser
        /\ FindById(users, p[1]).username = p[2]
  /\ \A id \in IdParams : id \notin IssuedIds => FindById(users, id) = NoUser
  /\ request.op = "getLogs" =>
        IF request.userId \in IssuedIds
        THEN /\ response.status = 200
             /\ <<response.body._id, response.body.username>> \in issued
             /\ response.body._id = request.userId
        ELSE response = ErrorResponse(404, "User not found")

C10_Witness ==
  /\ request.op = "getLogs"
  /\ request.userId = <<"2">>
  /\ response.status = 200
  /\ response.body.username = "alice"
  /\ <<<<"2">>, "alice">> \in issued
  /\ <<"0", "1">> \notin IssuedIds


C5_LimitIsPrefixOfFiltered ==
  (/\ request.op = "getLogs"
   /\ \E j \in 1..Len(users) : users[j]._id = request.userId
   /\ request.limit # <<>>
   /\ ParseIntString(request.limit) # NaN)
  => LET filtered == LogEntries(FilterTo(FilterFrom(OwnedBy(exercises, request.userId),
                                                    request.from), request.to))
         k == Min(Max(ParseIntString(request.limit), 0), Len(filtered))
     IN /\ response.status = 200
        /\ response.body.log = SubSeq(filtered, 1, k)
        /\ response.body.count = k

(* C9: a submission to an existing user with a non-empty description and a *)
(* duration convertible to a non-negative integer succeeds, and the        *)
(* duration returned and stored is the submitted one truncated.            *)
NonNegativeDuration(v) ==
  \/ v.t = "num" /\ v.h >= 0
  \/ v.t = "str" /\ ParseIntString(v.s) # NaN /\ ParseIntString(v.s) >= 0
Truncated(v) == IF v.t = "num" THEN v.h \div 2 ELSE ParseIntString(v.s)
C9_DurationTruncated ==
  (/\ request.op = "postExercises"
   /\ \E j \in 1..Len(users) : users[j]._id = request.userId
   /\ ~FalsyString(request.description)
   /\ NonNegativeDuration(request.duration)
   /\ GivenDate(request.date) => ParseDate(request.date) # NaN)
  => /\ response.status = 200
     /\ response.body.duration = Truncated(request.duration)
     /\ exercises # <<>>
     /\ exercises[Len(exercises)].duration = Truncated(request.duration)


(* C11 on the in-memory handlers: a log query of an existing user whose    *)
(* from or to is given and does not parse is answered 200 with count 0 and *)
(* an empty log.                                                           *)
UnparseableBound(from, to) ==
  \/ GivenDate(from) /\ ParseDate(from) = NaN
  \/ GivenDate(to) /\ ParseDate(to) = NaN
InMemoryInvalidBoundGivesEmptyLog ==
  (/\ request.op = "getLogs"
   /\ \E j \in 1..Len(users) : users[j]._id = request.userId
   /\ UnparseableBound(request.from, request.to))
  => /\ response.status = 200
     /\ response.body.count = 0
     /\ response.body.log = <<>>


(* C11: a log query of an existing user whose from or to is given and does *)
(* not parse is answered 200 with count 0 and an empty log.                *)
C11_InvalidBoundGivesEmptyLog ==
  \A r \in Requests :
    (/\ reqs[r].pc = "done"
     /\ reqs[r].op = "getLogs"
     /\ reqs[r].user # NoDoc
     /\ UnparseableBound(reqs[r].from, reqs[r].to))
    => /\ reqs[r].status = 200
       /\ reqs[r].body.count = 0
       /\ reqs[r].body.log = <<>>

====
